---- MODULE Spec2Model ----
(***************************************************************************)
(* Hospital review dashboard (src/app.py).  The Streamlit script is run    *)
(* top to bottom for every page interaction: it obtains the table through  *)
(* the cached load_data(), reads the sidebar menu and renders one of the    *)
(* three views (Home, Clustering, Analisis Sentimen).                       *)
(*                                                                         *)
(* A data frame is modelled as a record [columns, rows]: the set of column  *)
(* names and the sequence of rows.  Indexing a column the frame does not    *)
(* have raises KeyError, which ends the page run.                           *)
(***************************************************************************)
EXTENDS Integers, Sequences, FiniteSets, Bags, TLC

VARIABLES
    file,      \* the file HasilSentimenAllRS.csv: [status, rows]
    cache,     \* the st.cache_data entry of load_data: NoEntry or a data frame
    reads,     \* number of times pd.read_csv has been executed in this process
    errors,    \* number of times st.error has been called by load_data
    pc,        \* "idle": between page runs; "loaded": after line 165 of a run
    df,        \* the script variable df of the current (or last) run
    hit,       \* whether the last call of load_data was served from the cache
    exc,       \* "none", or the exception that ended the page run
    page       \* what the view of the current run rendered

vars == <<file, cache, reads, errors, pc, df, hit, exc, page>>

----------------------------------------------------------------------------
(* Bounds of the model *)

\* rows of the exhaustively enumerated tables
MaxRows == 2
\* rows of the long tables (more rows than either sample size)
MaxLongRows == 6
\* cap on the read counter (only an uncached load_data can reach it)
MaxReads == 3

----------------------------------------------------------------------------
(* The data model: columns and cell values of the CSV *)

Columns == {"review", "rating", "location", "cluster", "predicted_sentiment"}

Locations == {"RS A", "RS B"}
Ratings == {1, 5}
Clusters == {0, 2}
Sentiments == {"positif", "negatif"}
\* the text of a review as written in the file; "" is an empty cell
Reviews == {"", "bagus"}

\* pandas' missing value
NaN == "NaN"

FileRows == [review : Reviews, rating : Ratings, location : Locations,
             cluster : Clusters, predicted_sentiment : Sentiments]

\* the rows of the long tables
LongRows == {[review |-> "bagus", rating |-> 5, location |-> "RS A",
              cluster |-> 0, predicted_sentiment |-> "positif"],
             [review |-> "", rating |-> 3, location |-> "RS A",
              cluster |-> 1, predicted_sentiment |-> "negatif"],
             [review |-> "bagus", rating |-> 1, location |-> "RS B",
              cluster |-> 1, predicted_sentiment |-> "negatif"]}

SeqsUpTo(S, n) == UNION {[1..k -> S] : k \in 0..n}

\* section 8, end-to-end scenario 2: cluster values 0,0,1,2,2,2
Scenario2 == [i \in 1..6 |->
                [review |-> "bagus", rating |-> 5, location |-> "RS A",
                 cluster |-> <<0, 0, 1, 2, 2, 2>>[i],
                 predicted_sentiment |-> "positif"]]

Tables == SeqsUpTo(FileRows, MaxRows) \cup SeqsUpTo(LongRows, MaxLongRows)
            \cup {Scenario2}

----------------------------------------------------------------------------
(* pandas operations used by the script *)

\* pd.DataFrame(): no columns, no rows
EmptyDataFrame == [columns |-> {}, rows |-> <<>>]

\* pd.read_csv: an empty text cell is read as NaN
ParseCell(text) == IF text = "" THEN NaN ELSE text

read_csv(f) ==
    [columns |-> Columns,
     rows    |-> [i \in DOMAIN f.rows |->
                    [f.rows[i] EXCEPT !.review = ParseCell(@)]]]

\* df[c]: the column as a sequence of cell values
Col(d, c) == [i \in DOMAIN d.rows |-> d.rows[i][c]]

\* series == value, series.isin(values): the boolean mask of a comparison
Eq(s, v) == [i \in DOMAIN s |-> s[i] = v]

Isin(s, values) == [i \in DOMAIN s |-> s[i] \in values]

\* df[mask]: a new frame holding the rows whose mask is True, in order
Mask(d, mask) ==
    LET kept == SelectSeq([i \in DOMAIN d.rows |-> i], LAMBDA i : mask[i])
    IN  [columns |-> d.columns, rows |-> [j \in DOMAIN kept |-> d.rows[kept[j]]]]

\* len(df): the number of rows
NRows(d) == Len(d.rows)

\* Series.count(): the number of cells that are not NaN
CountNotNaN(s) == Cardinality({i \in DOMAIN s : s[i] # NaN})

Occurrences(s, v) == Cardinality({i \in DOMAIN s : s[i] = v})

\* Series.unique(): the distinct values (here without their order)
Unique(s) == {s[i] : i \in DOMAIN s}

\* Series.nunique(): the number of distinct values
NUnique(s) == Cardinality(Unique(s))

\* Series.value_counts(): value -> count, for the values that occur.  (pandas
\* leaves NaN out; of the columns of this data model only review holds NaN,
\* and the script never counts the values of review.)
ValueCounts(s) == [v \in Unique(s) |-> Occurrences(s, v)]

RECURSIVE SumOver(_, _)
SumOver(f, S) ==
    IF S = {} THEN 0
    ELSE LET k == CHOOSE x \in S : TRUE IN f[k] + SumOver(f, S \ {k})

\* the sum of the values of a mapping
Total(f) == SumOver(f, DOMAIN f)

Min(a, b) == IF a < b THEN a ELSE b

SeqMin(s) == CHOOSE m \in Unique(s) : \A v \in Unique(s) : m <= v

SeqMax(s) == CHOOSE m \in Unique(s) : \A v \in Unique(s) : m >= v

RECURSIVE Ascending(_)
\* the elements of a set of integers in ascending order
Ascending(S) ==
    IF S = {} THEN <<>>
    ELSE LET m == CHOOSE x \in S : \A y \in S : x <= y
         IN  <<m>> \o Ascending(S \ {m})

RECURSIVE Descending(_)
Descending(S) ==
    IF S = {} THEN <<>>
    ELSE LET m == CHOOSE x \in S : \A y \in S : x >= y
         IN  <<m>> \o Descending(S \ {m})

\* sort_index(ascending=False)
SortIndex_descending(counts) ==
    LET keys == Descending(DOMAIN counts)
    IN  [i \in DOMAIN keys |-> <<keys[i], counts[keys[i]]>>]

\* Series.sort_index() of a value_counts(): the <<value, count>> entries in
\* ascending order of the value
SortIndex(counts) ==
    LET keys == Ascending(DOMAIN counts)
    IN  [i \in DOMAIN keys |-> <<keys[i], counts[keys[i]]>>]

\* the loop "for value, count in counts.items(): count/n*100": one entry per
\* value of counts, each the quotient count/n (times 100)
Percentages(counts, n) == [v \in DOMAIN counts |-> [count |-> counts[v], of |-> n]]

\* the bag of the elements of a sequence
SeqToBag(q) ==
    [e \in {q[i] : i \in DOMAIN q} |-> Cardinality({i \in DOMAIN q : q[i] = e})]

\* Series.sample(k, replace=True): k draws, a row may be drawn again
sample_replace(n, k) == {SeqToBag(q) : q \in [1..k -> 1..n]}

\* Series.sample(k) on n rows, replace=False: k distinct rows, as the bag of
\* their positions
sample(n, k) == {SetToBag(S) : S \in {T \in SUBSET (1..n) : Cardinality(T) = k}}

\* sample(k) raises ValueError when asked for more rows than there are
SampleRaises(n, k) == k > n

\* what sample(k) can return, the empty sample standing for a raise
Sampled(n, k) == IF SampleRaises(n, k) THEN {EmptyBag} ELSE sample(n, k)

----------------------------------------------------------------------------
(* load_data, lines 98-105 *)

\* the cache of a function that has not been called yet
NoEntry == [has |-> FALSE, value |-> EmptyDataFrame]

\* the entry st.cache_data stores for the value the body returned
Entry(d) == [has |-> TRUE, value |-> d]

\* the body of load_data: the frame it returns
load_data_body(f) == IF f.status = "ok" THEN read_csv(f) ELSE EmptyDataFrame

\* load_data without its decorator: no call is served from the cache
CacheHit_undecorated(c) == FALSE

\* @st.cache_data: the body runs only when the function has no cache entry
CacheHit(c) == c.has

\* line 165: df = load_data()
LoadData ==
    /\ pc = "idle"
    /\ pc' = "loaded"
    /\ IF CacheHit(cache)
       THEN /\ df' = cache.value
            /\ UNCHANGED <<cache, reads, errors>>
       ELSE /\ reads < MaxReads
            /\ reads' = reads + 1
            /\ errors' = IF file.status = "ok" THEN errors ELSE errors + 1
            /\ df' = load_data_body(file)
            /\ cache' = Entry(load_data_body(file))
    /\ hit' = CacheHit(cache)
    /\ exc' = "none"
    /\ page' = [view |-> "none"]
    /\ UNCHANGED file

----------------------------------------------------------------------------
(* menu == Home, lines 180-296 *)

\* Series.mean(), kept as the quotient sum/of
Mean(s) == [sum |-> SumOver(s, DOMAIN s), of |-> Len(s)]

\* lines 219-222: df.groupby('location').agg({'rating': 'mean', 'review': 'count'}):
\* per location, the mean rating and the number of review cells that are
\* not NaN
hospital_stats(d) ==
    [h \in Unique(Col(d, "location")) |->
        LET group == Mask(d, Eq(Col(d, "location"), h))
        IN  [rating |-> Mean(Col(group, "rating")),
             review |-> CountNotNaN(Col(group, "review"))]]

\* line 227: "⭐" * int(avg_rating), for the groups the loop visits
stars(stats) == [h \in DOMAIN stats |-> stats[h].rating.sum \div stats[h].rating.of]

\* lines 262 and 278: df['location'].value_counts() (hospital_counts and
\* location_counts)
hospital_counts(d) == ValueCounts(Col(d, "location"))

\* line 238: df['rating'].value_counts().sort_index()
rating_dist(d) == SortIndex(ValueCounts(Col(d, "rating")))

HomePage(d) ==
    [view            |-> "Home",
     total_ulasan    |-> NRows(d),
     total_hospitals |-> NUnique(Col(d, "location")),
     hospital_stats  |-> hospital_stats(d),
     stars           |-> stars(hospital_stats(d)),
     rating_dist     |-> rating_dist(d),
     hospital_counts |-> hospital_counts(d)]

HomeRender ==
    IF "location" \in df.columns
    THEN /\ page' = HomePage(df)
         /\ exc' = "none"
    ELSE \* line 195: df['location'] raises KeyError, after Total Ulasan (line 190)
         /\ page' = [view |-> "Home", total_ulasan |-> NRows(df)]
         /\ exc' = "KeyError"

Home ==
    /\ pc = "loaded"
    /\ pc' = "idle"
    /\ HomeRender
    /\ UNCHANGED <<file, cache, reads, errors, df, hit>>

----------------------------------------------------------------------------
(* menu == Clustering, lines 298-452 *)

\* line 308: df[df['location'].isin(selected_hospitals_cluster)]
filtered_df_cluster(d, selected_hospitals_cluster) ==
    Mask(d, Isin(Col(d, "location"), selected_hospitals_cluster))

\* line 313: filtered_df_cluster['cluster'].value_counts().sort_index()
cluster_counts(fd) == SortIndex(ValueCounts(Col(fd, "cluster")))

\* lines 386-394: the statistics of one hospital of the filtered frame
hospital_analysis(fd, hospital) ==
    LET hospital_data == Mask(fd, Eq(Col(fd, "location"), hospital))
    IN  [total_reviews |-> NRows(hospital_data),
         num_clusters  |-> NUnique(Col(hospital_data, "cluster")),
         dominant_is_na |-> ~(NRows(hospital_data) > 0),
         cluster_counts_hospital |->
             SortIndex(ValueCounts(Col(hospital_data, "cluster")))]

\* the options taken from the keys of cluster_names (line 340) instead of the
\* filtered frame
cluster_options_named(fd) == {0, 1, 2}

\* line 425: the options of the cluster selectbox
cluster_options(fd) == Unique(Col(fd, "cluster"))

\* lines 423-427: st.selectbox returns one of its options, None when it has
\* none.  A selection is <<id>>, and <<>> for None.
Selectable(options) == IF options = {} THEN {<<>>} ELSE {<<o>> : o \in options}

\* the detail computed on the whole filtered frame
cluster_data_unfiltered(fd, selected_cluster) == fd

\* line 429: filtered_df_cluster[filtered_df_cluster['cluster'] == selected_cluster]
cluster_data(fd, selected_cluster) ==
    Mask(fd, [i \in DOMAIN fd.rows |-> <<fd.rows[i].cluster>> = selected_cluster])

\* line 436: cluster_data['rating'].min() and .max(); <<>> stands for nan,
\* the minimum and maximum of an empty column
rating_range(cd) ==
    IF NRows(cd) = 0 THEN <<>>
    ELSE <<SeqMin(Col(cd, "rating")), SeqMax(Col(cd, "rating"))>>

\* one line per label of the label set, present in the cluster or not
sentiment_dist_every_label(cd) ==
    Percentages([s \in Sentiments |->
                    Occurrences(Col(cd, "predicted_sentiment"), s)], NRows(cd))

\* lines 438-440: one line per sentiment of the cluster, with count/len*100
sentiment_dist(cd) == Percentages(ValueCounts(Col(cd, "predicted_sentiment")), NRows(cd))

\* line 443: cluster_data['location'].value_counts()
hospital_dist(cd) == ValueCounts(Col(cd, "location"))

\* line 450: the number of reviews asked of sample()
cluster_sample_size(cd) == Min(3, NRows(cd))

ClusteringPage(d, selected_hospitals_cluster, selected_cluster, sample_reviews) ==
    LET fd == filtered_df_cluster(d, selected_hospitals_cluster)
        cd == cluster_data(fd, selected_cluster)
    IN  [view             |-> "Clustering",
         selected_hospitals_cluster |-> selected_hospitals_cluster,
         total_review     |-> NRows(fd),
         cluster_counts   |-> cluster_counts(fd),
         total_clusters   |-> Len(cluster_counts(fd)),
         chart_drawn      |-> NRows(fd) > 0,
         analysis         |-> [h \in Unique(Col(fd, "location")) |->
                                  hospital_analysis(fd, h)],
         cluster_options  |-> cluster_options(fd),
         selected_cluster |-> selected_cluster,
         total_reviews    |-> NRows(cd),
         rating_range     |-> rating_range(cd),
         sentiment_dist   |-> sentiment_dist(cd),
         hospital_dist    |-> hospital_dist(cd),
         sample_reviews   |-> sample_reviews]

ClusteringRender ==
    IF "location" \in df.columns
    THEN \E selected_hospitals_cluster \in SUBSET Unique(Col(df, "location")) :
           LET fd == filtered_df_cluster(df, selected_hospitals_cluster) IN
           \E selected_cluster \in Selectable(cluster_options(fd)) :
             LET cd == cluster_data(fd, selected_cluster) IN
             \E sample_reviews \in Sampled(NRows(cd), cluster_sample_size(cd)) :
                /\ page' = ClusteringPage(df, selected_hospitals_cluster,
                                          selected_cluster, sample_reviews)
                /\ exc' = IF SampleRaises(NRows(cd), cluster_sample_size(cd))
                          THEN "ValueError" ELSE "none"
    ELSE \* line 303: df['location'] raises KeyError
         /\ page' = [view |-> "Clustering"]
         /\ exc' = "KeyError"

\* the view with the filter assigned to df itself
Clustering_inplace ==
    /\ pc = "loaded"
    /\ pc' = "idle"
    /\ ClusteringRender
    /\ df' = IF "selected_hospitals_cluster" \in DOMAIN page'
             THEN filtered_df_cluster(df, page'.selected_hospitals_cluster)
             ELSE df
    /\ UNCHANGED <<file, cache, reads, errors, hit>>

Clustering ==
    /\ pc = "loaded"
    /\ pc' = "idle"
    /\ ClusteringRender
    /\ UNCHANGED <<file, cache, reads, errors, df, hit>>

----------------------------------------------------------------------------
(* menu == Analisis Sentimen, lines 455-560 *)

\* line 459: df['predicted_sentiment'].value_counts()
sentiment_counts(d) == ValueCounts(Col(d, "predicted_sentiment"))

\* lines 464 and 473: sentiment_counts.get(label, 0)
Get(counts, key, default) == IF key \in DOMAIN counts THEN counts[key] ELSE default

\* line 530: the options of the hospital selectbox
hospital_options(d) == {"Semua"} \cup Unique(Col(d, "location"))

\* lines 532-535
filtered_df(d, selected_hospital) ==
    IF selected_hospital # "Semua"
    THEN Mask(d, Eq(Col(d, "location"), selected_hospital))
    ELSE d

\* lines 538-544: one line per sentiment of the filtered frame that is
\* 'positif' or 'negatif', with count/len*100
sentiment_stats(fd) ==
    LET stats == Percentages(ValueCounts(Col(fd, "predicted_sentiment")), NRows(fd))
    IN  [s \in DOMAIN stats \cap {"positif", "negatif"} |-> stats[s]]

\* line 554
sentiment_reviews(fd, selected_sentiment) ==
    Mask(fd, Eq(Col(fd, "predicted_sentiment"), selected_sentiment))

\* line 556: the number of reviews asked of sample()
sentiment_sample_size(sr) == Min(5, NRows(sr))

\* the sample branch taken only for two or more reviews
HasReviews_two(sr) == NRows(sr) > 1

\* line 555: the branch that shows a sample
HasReviews(sr) == NRows(sr) > 0

SentimenPage(d, selected_hospital, selected_sentiment, sample_reviews) ==
    LET fd == filtered_df(d, selected_hospital)
        sr == sentiment_reviews(fd, selected_sentiment)
    IN  [view               |-> "Sentimen",
         positive_count     |-> Get(sentiment_counts(d), "positif", 0),
         negative_count     |-> Get(sentiment_counts(d), "negatif", 0),
         selected_hospital  |-> selected_hospital,
         sentiment_stats    |-> sentiment_stats(fd),
         selected_sentiment |-> selected_sentiment,
         sample_reviews     |-> sample_reviews,
         info               |-> ~HasReviews(sr)]

SentimenRender ==
    IF "predicted_sentiment" \in df.columns
    THEN \E selected_hospital \in hospital_options(df) :
           LET fd == filtered_df(df, selected_hospital) IN
           \E selected_sentiment \in {"positif", "negatif"} :
             LET sr == sentiment_reviews(fd, selected_sentiment)
                 k  == sentiment_sample_size(sr)
             IN
             \E sample_reviews \in
                   IF HasReviews(sr) THEN Sampled(NRows(sr), k) ELSE {EmptyBag} :
                /\ page' = SentimenPage(df, selected_hospital,
                                        selected_sentiment, sample_reviews)
                /\ exc' = IF HasReviews(sr) /\ SampleRaises(NRows(sr), k)
                          THEN "ValueError" ELSE "none"
    ELSE \* line 459: df['predicted_sentiment'] raises KeyError
         /\ page' = [view |-> "Sentimen"]
         /\ exc' = "KeyError"

Sentimen ==
    /\ pc = "loaded"
    /\ pc' = "idle"
    /\ SentimenRender
    /\ UNCHANGED <<file, cache, reads, errors, df, hit>>

----------------------------------------------------------------------------

Init ==
    /\ file \in [status : {"ok"}, rows : Tables]
                  \cup [status : {"missing", "corrupt"}, rows : {<<>>}]
    /\ cache = NoEntry
    /\ reads = 0
    /\ errors = 0
    /\ pc = "idle"
    /\ df = EmptyDataFrame
    /\ hit = FALSE
    /\ exc = "none"
    /\ page = [view |-> "none"]

Next ==
    \/ LoadData
    \/ Home
    \/ Clustering
    \/ Sentimen

Spec == Init /\ [][Next]_vars

----------------------------------------------------------------------------
(* Properties *)

\* the page of a view that got past its first column access
Rendered(view, field) == page.view = view /\ field \in DOMAIN page

\* the number of rows of the loaded table with a sentiment
RowsWithSentiment(s) ==
    Cardinality({i \in DOMAIN df.rows : df.rows[i].predicted_sentiment = s})

\* the number of rows of the Sentiment view's location filter that have the
\* selected sentiment
Matching ==
    Cardinality({i \in DOMAIN df.rows :
        /\ page.selected_hospital \in {"Semua", df.rows[i].location}
        /\ df.rows[i].predicted_sentiment = page.selected_sentiment})

\* a row of the Clustering view's hospital filter
InFilter(r) == r.location \in page.selected_hospitals_cluster

\* a row of the selected cluster
InCluster(r) == <<r.cluster>> = page.selected_cluster

\* the rows of the table in the hospital filter
RowsInFilter == Cardinality({i \in DOMAIN df.rows : InFilter(df.rows[i])})

\* the rows of the table in the selected cluster
RowsInCluster == Cardinality({i \in DOMAIN df.rows : InCluster(df.rows[i])})

\* the rows of the table in the hospital filter and the selected cluster
RowsInDetail ==
    Cardinality({i \in DOMAIN df.rows :
                    InFilter(df.rows[i]) /\ InCluster(df.rows[i])})

\* the rows of the table in the hospital filter with cluster id c
RowsInFilterWithCluster(c) ==
    Cardinality({i \in DOMAIN df.rows :
                    InFilter(df.rows[i]) /\ df.rows[i].cluster = c})

NoZeroDenominator(pcts) == \A v \in DOMAIN pcts : pcts[v].of > 0

\* b holds k distinct positions of 1..n
IsSampleOf(b, n, k) ==
    /\ BagCardinality(b) = k
    /\ DOMAIN b \subseteq 1..n
    /\ \A e \in DOMAIN b : b[e] = 1

\* C1: when loading the input file fails, load_data reports the error and
\* substitutes an empty dataset, and the page run of every menu choice
\* completes, showing 0 records, instead of raising.
C1_LoadFailureDegrades ==
    (file.status # "ok" /\ pc = "idle" /\ page.view # "none")
        => /\ errors = 1
           /\ NRows(df) = 0
           /\ exc = "none"

\* C2: an empty or filtered-to-empty subset gives defined empty results and
\* no division by zero: every quotient count/len(subset) of the Clustering and
\* Sentiment views has len(subset) > 0, and the Clustering run with no
\* hospital selected completes with zero counts, no selectable cluster and an
\* empty sample; so does every Sentiment run.
C2_EmptySubsetTolerated ==
    /\ Rendered("Clustering", "sentiment_dist") =>
          /\ NoZeroDenominator(page.sentiment_dist)
          /\ page.selected_hospitals_cluster = {} =>
                /\ exc = "none"
                /\ page.total_review = 0
                /\ page.cluster_counts = <<>>
                /\ page.total_clusters = 0
                /\ ~page.chart_drawn
                /\ DOMAIN page.analysis = {}
                /\ page.selected_cluster = <<>>
                /\ page.total_reviews = 0
                /\ page.rating_range = <<>>
                /\ DOMAIN page.sentiment_dist = {}
                /\ DOMAIN page.hospital_dist = {}
                /\ page.sample_reviews = EmptyBag
    /\ Rendered("Sentimen", "sentiment_stats") =>
          /\ NoZeroDenominator(page.sentiment_stats)
          /\ exc = "none"

\* C2 witness: a Clustering run on a table with rows and no hospital selected
C2_Witness ==
    /\ Rendered("Clustering", "selected_hospitals_cluster")
    /\ page.selected_hospitals_cluster = {}
    /\ NRows(df) > 0
    /\ exc = "none"

\* C3: the loaded table is immutable: whatever views have run with whatever
\* selections, df and the cached table hold exactly the rows and cell values
\* that were loaded from the file.
C3_TableImmutable ==
    cache.has => /\ df = load_data_body(file)
                 /\ cache.value = load_data_body(file)

\* C3 witness: a later run (served from the cache) has rendered the
\* Clustering view with a filter that leaves out rows of the table
C3_Witness ==
    /\ hit
    /\ Rendered("Clustering", "total_review")
    /\ 0 < page.total_review
    /\ page.total_review < NRows(df)

\* C4: the file is read at most once per process: the first call of load_data
\* reads it and every later call is served the cached result, also when the
\* read failed and the empty dataset was returned.
C4_ReadOnce ==
    /\ reads <= 1
    /\ cache.has <=> reads = 1
    /\ hit => df = cache.value
    /\ (cache.has /\ file.status # "ok") =>
          /\ cache.value = EmptyDataFrame
          /\ errors = 1

\* C4 witness: after a failed read, a later run was served from the cache
C4_Witness ==
    /\ file.status = "missing"
    /\ hit
    /\ reads = 1
    /\ pc = "idle"
    /\ page.view # "none"

\* C5: in the Sentiment view the no-data message is shown if and only if no
\* row of the location-filtered subset has the selected sentiment; otherwise a
\* sample of at least one review is shown and no message.
C5_NoDataMessageIff ==
    Rendered("Sentimen", "info") =>
        /\ page.info <=> Matching = 0
        /\ page.info => page.sample_reviews = EmptyBag
        /\ ~page.info => BagCardinality(page.sample_reviews) >= 1

\* C5 witness: a location with rows, none of them negatif, and negatif selected
C5_Witness ==
    /\ Rendered("Sentimen", "info")
    /\ page.selected_hospital # "Semua"
    /\ page.selected_sentiment = "negatif"
    /\ page.info

\* C6: the cluster-detail sample holds exactly min(3, rows of the selected
\* cluster) reviews and the sentiment sample exactly min(5, matching rows),
\* no row twice; with no matching row the result is empty (with the no-data
\* message in the Sentiment view) and nothing is raised.
C6_SampleSizes ==
    /\ Rendered("Clustering", "sample_reviews") =>
          LET n == RowsInDetail IN
          /\ exc = "none"
          /\ IsSampleOf(page.sample_reviews, n, IF n < 3 THEN n ELSE 3)
    /\ Rendered("Sentimen", "sample_reviews") =>
          /\ exc = "none"
          /\ IsSampleOf(page.sample_reviews, Matching,
                        IF Matching < 5 THEN Matching ELSE 5)
          /\ Matching = 0 => page.info

\* C6 witness: more than five matching rows, five of them sampled
C6_Witness ==
    /\ Rendered("Sentimen", "sample_reviews")
    /\ Matching > 5
    /\ BagCardinality(page.sample_reviews) = 5

\* C7: under any location filter the Sentiment view reports both categories
\* of the label set, with count 0 for a category absent from the filtered
\* subset, in the overview counts and in the filtered statistics list, and
\* the reported percentages sum to 100% of the filtered subset.
C7_EveryCategoryReported ==
    Rendered("Sentimen", "sentiment_stats") =>
        LET stats == page.sentiment_stats IN
        /\ page.positive_count = RowsWithSentiment("positif")
        /\ page.negative_count = RowsWithSentiment("negatif")
        /\ DOMAIN stats = {"positif", "negatif"}
        /\ \A s \in DOMAIN stats :
              SumOver([t \in DOMAIN stats |-> 100 * stats[t].count], DOMAIN stats)
                  = 100 * stats[s].of

\* C8: on Home the per-location counts (the count column of the per-location
\* summary and the location share counts) sum to len(T), and the number of
\* locations listed equals the number of distinct locations of the metric.
C8_LocationCountsSum ==
    Rendered("Home", "hospital_stats") =>
        /\ Total([h \in DOMAIN page.hospital_stats |->
                     page.hospital_stats[h].review]) = NRows(df)
        /\ Total(page.hospital_counts) = NRows(df)
        /\ Cardinality(DOMAIN page.hospital_stats) = page.total_hospitals
        /\ Cardinality(DOMAIN page.hospital_counts) = page.total_hospitals

\* the rating range of the cluster detail lies in [1,5], min <= max
RatingRangeOk ==
    /\ Len(page.rating_range) = 2
    /\ 1 <= page.rating_range[1]
    /\ page.rating_range[1] <= page.rating_range[2]
    /\ page.rating_range[2] <= 5

\* C9 as stated: under every hospital selection that makes a cluster
\* selectable, the detail's Total reviews is the number of rows of T with that
\* cluster id, and its rating min and max lie in [1,5] with min <= max.
C9_DetailCountsRowsOfTable ==
    (Rendered("Clustering", "selected_cluster") /\ page.selected_cluster # <<>>)
        => /\ page.total_reviews = RowsInCluster
           /\ RatingRangeOk

\* C9 amended: the detail's Total reviews is the number of rows with that
\* cluster id among the rows of the selected hospitals, which is the number of
\* rows of T with that id when every hospital of T is selected; its rating min
\* and max lie in [1,5] with min <= max.
C9_DetailCountsRowsOfFilter ==
    (Rendered("Clustering", "selected_cluster") /\ page.selected_cluster # <<>>)
        => /\ page.total_reviews = RowsInDetail
           /\ page.total_reviews >= 1
           /\ page.selected_hospitals_cluster = Unique(Col(df, "location")) =>
                 page.total_reviews = RowsInCluster
           /\ RatingRangeOk

\* C9 witness: a cluster selected whose rows lie partly in a hospital that is
\* not selected
C9_Witness ==
    /\ Rendered("Clustering", "selected_cluster")
    /\ page.selected_cluster # <<>>
    /\ page.total_reviews < RowsInCluster
    /\ page.total_reviews = RowsInDetail
    /\ RatingRangeOk

\* C10: the cluster summary lists one count per distinct cluster value of the
\* rows shown, in ascending order of cluster id, each count the number of
\* those rows with that value; the counts sum to Total Review and Total
\* Cluster is the number of distinct values; cluster values 0,0,1,2,2,2 give
\* 0:2, 1:1, 2:3 in that order.
C10_ClusterSummary ==
    Rendered("Clustering", "cluster_counts") =>
        LET cc == page.cluster_counts
            shown == {df.rows[i].cluster :
                         i \in {j \in DOMAIN df.rows : InFilter(df.rows[j])}}
        IN  /\ {cc[i][1] : i \in DOMAIN cc} = shown
            /\ Len(cc) = Cardinality(shown)
            /\ \A i, j \in DOMAIN cc : i < j => cc[i][1] < cc[j][1]
            /\ \A i \in DOMAIN cc :
                  cc[i][2] = RowsInFilterWithCluster(cc[i][1])
            /\ SumOver([i \in DOMAIN cc |-> cc[i][2]], DOMAIN cc) = page.total_review
            /\ page.total_review = RowsInFilter
            /\ page.total_clusters = Cardinality(shown)
            /\ (file.rows = Scenario2 /\ page.selected_hospitals_cluster = {"RS A"})
                  => cc = << <<0, 2>>, <<1, 1>>, <<2, 3>> >>

\* C10 witness: the scenario table with its hospital selected
C10_Witness ==
    /\ Rendered("Clustering", "cluster_counts")
    /\ file.rows = Scenario2
    /\ page.selected_hospitals_cluster = {"RS A"}
    /\ page.cluster_counts = << <<0, 2>>, <<1, 1>>, <<2, 3>> >>

\* C11: in the Clustering view the selectable cluster ids are exactly the
\* distinct cluster values of the hospital-filtered rows, so a selected
\* cluster has at least one row: its detail count is >= 1, every hospital of
\* its distribution is a selected hospital and its sample shows between 1 and
\* 3 reviews; every hospital of the per-hospital analysis has at least one
\* row, so the 'N/A' dominant-cluster fallback is never taken.
C11_SelectedClusterHasRows ==
    Rendered("Clustering", "cluster_options") =>
        /\ page.cluster_options =
              {df.rows[i].cluster :
                  i \in {j \in DOMAIN df.rows : InFilter(df.rows[j])}}
        /\ page.selected_cluster \in Selectable(page.cluster_options)
        /\ page.selected_cluster # <<>> =>
              /\ page.total_reviews >= 1
              /\ page.total_reviews = RowsInDetail
              /\ DOMAIN page.hospital_dist # {}
              /\ DOMAIN page.hospital_dist \subseteq page.selected_hospitals_cluster
              /\ \A h \in DOMAIN page.hospital_dist : page.hospital_dist[h] >= 1
              /\ BagCardinality(page.sample_reviews) >= 1
              /\ BagCardinality(page.sample_reviews) <= 3
        /\ DOMAIN page.analysis \subseteq page.selected_hospitals_cluster
        /\ \A h \in DOMAIN page.analysis :
              /\ page.analysis[h].total_reviews >= 1
              /\ ~page.analysis[h].dominant_is_na

\* C11 witness: a hospital deselected, a cluster of the others selected whose
\* detail has more than three rows, three of them sampled
C11_Witness ==
    /\ Rendered("Clustering", "cluster_options")
    /\ page.selected_cluster # <<>>
    /\ page.selected_hospitals_cluster # Unique(Col(df, "location"))
    /\ page.total_reviews > 3
    /\ BagCardinality(page.sample_reviews) = 3
    /\ DOMAIN page.analysis # {}

====
